---- MODULE Spec2Model ----
(***************************************************************************)
(* Model of TextSnake.pytorch/train_textsnake.py: the training driver.     *)
(* One process runs main(): it builds the loaders, the model, the          *)
(* optimizer and the scheduler, optionally resumes from a checkpoint and   *)
(* then drives train() and validation() for every epoch.                   *)
(*                                                                         *)
(* Tensors are abstracted: the model parameters and the optimizer state    *)
(* are version numbers (number of optimizer steps they went through), a    *)
(* learning rate is the number of 0.1 factors applied to cfg.lr.           *)
(***************************************************************************)
EXTENDS Integers, Sequences, FiniteSets

VARIABLES cfg,          \* util.config.cfg, fixed after update_config
          pc,           \* position of the process in the script
          epoch,        \* loop variable of main's epoch loop
          i,            \* batch index of the running train()/validation() loop
          train_step,   \* the module-level counter
          model,        \* [wrapped, params, training]
          optimizer,    \* optimizer state (number of steps taken)
          scheduler,    \* [kind, last_epoch]
          dirExists,    \* <save_dir>/<exp_name> exists
          ckpts,        \* checkpoint files in the experiment directory
          logFiles,     \* lines this process appended to each per-term file
          console,      \* progress lines printed by train()
          logger,       \* write_scalars calls received by LogSummary
          calls,        \* train()/validation() invocations, in order
          saved         \* save_model calls, in order, with the scheduler count

vars == <<cfg, pc, epoch, i, train_step, model, optimizer, scheduler,
          dirExists, ckpts, logFiles, console, logger, calls, saved>>

----------------------------------------------------------------------------
(* Bounds of the model *)
MaxBatches == 4      \* batches per epoch of the train loader: 0..MaxBatches
MaxValBatches == 2   \* batches of the validation loader: 0..MaxValBatches
MaxFreq == 2         \* display_freq, viz_save_iter, log_freq, save_freq in 1..MaxFreq
MaxEpochs == 2       \* epochs of a short run: max_epoch - start_epoch in 0..MaxEpochs

(* Program constants *)
step_size == 100     \* StepLR(optimizer, step_size=100, gamma=0.1)
SavedParams == 3     \* parameter version held by the checkpoint given to --resume
SavedOptimizer == 3  \* optimizer state held by that checkpoint

LogNames == {"tr_loss_result", "tcl_loss_result", "sin_result", "cos_result",
             "radii_result", "loss_result"}

----------------------------------------------------------------------------
(* Learning-rate schedules *)

\* StepLR.get_lr: base_lr * gamma ^ (last_epoch // step_size), as an exponent
StepLR_get_lr(last_epoch) == last_epoch \div step_size

\* FixLR.get_lr: the base learning rate, whatever the epoch
FixLR_get_lr(last_epoch) == 0

get_lr(s) == IF s.kind = "StepLR" THEN StepLR_get_lr(s.last_epoch)
                                  ELSE FixLR_get_lr(s.last_epoch)

\* a scheduler advanced once per batch instead of once per epoch
scheduler_step_per_batch(s) == [s EXCEPT !.last_epoch = @ + cfg.batches]

\* scheduler.step(): one more epoch
scheduler_step(s) == [s EXCEPT !.last_epoch = @ + 1]

\* scheduler.step() left active at the head of train()
train_head_scheduler_active(s) == [s EXCEPT !.last_epoch = @ + 1]

\* the commented-out scheduler.step() at the head of train()
train_head_scheduler(s) == s

----------------------------------------------------------------------------
(* State dicts and checkpoints *)

\* the '{}' of a file name or of a log line: an iteration index or a word
iter_label(k) == <<"iter", k>>
end_label == <<"end", 0>>
validation_label == <<"validation", 0>>

\* state_dict of a module: keys carry the "module." prefix of a DataParallel wrapper
state_dict(m) == [prefix |-> m.wrapped, vals |-> m.params]

\* model.module of a DataParallel wrapper
module(m) == [m EXCEPT !.wrapped = FALSE]

\* the record save_model hands to torch.save, and the file name it uses
save_model(m, e, l, opt, iter) ==
    [name      |-> <<e, iter>>,
     lr        |-> l,
     epoch     |-> e,
     model     |-> IF ~cfg.mgpu THEN state_dict(m) ELSE state_dict(module(m)),
     optimizer |-> opt]

\* torch.save to save_path: a file of the same name is replaced
torch_save(files, rec) == {f \in files : f.name # rec.name} \cup {rec}

\* load_state_dict(strict): the keys must be the module's own keys
load_ok(m, sd) == sd.prefix = m.wrapped

\* load_model: only state_dict['model'] is restored
load_model(m, rec) == [m EXCEPT !.params = rec.model.vals]

\* the optimizer main builds after the optional load_model
new_optimizer(rec) == 0

\* the checkpoint file cfg.resume points to: what save_model wrote at the end
\* of epoch 0 of an earlier run, after SavedOptimizer optimizer steps
ResumeFile ==
    save_model([wrapped |-> cfg.mgpu, params |-> SavedParams, training |-> TRUE],
               0, 0, SavedOptimizer, end_label)

----------------------------------------------------------------------------
(* Conditions of the loops *)

\* a display condition counting batches from one
display_due_from_one(k) == (k + 1) % cfg.display_freq = 0

\* an end-of-epoch condition counting epochs from one
end_save_due_from_one(e) == (e + 1) % cfg.save_freq = 0

display_due(k)   == k % cfg.display_freq = 0
iter_save_due(k) == k % cfg.viz_save_iter = 0
log_due(k)       == k % cfg.log_freq = 0
end_save_due(e)  == e % cfg.save_freq = 0

\* a validation loader built for every dataset
has_valset_always == TRUE

\* valset is truthy: only total-text builds one, and it is not empty
has_valset == cfg.dataset = "total-text" /\ cfg.val_batches > 0

\* a step counter derived from the batch index of the epoch
next_train_step_per_epoch(ts, k) == k + 1

\* train_step += 1
next_train_step(ts, k) == ts + 1

\* a validation loop that also applies the optimizer
validation_params_updated(p) == p + 1

\* validation() runs under torch.no_grad() and never calls optimizer.step()
validation_params(p) == p

AppendAll(files, line) == [f \in LogNames |-> Append(files[f], line)]

----------------------------------------------------------------------------
(* Configurations *)

\* the settings update_config leaves in cfg
Config(ds, mg, rs, nb, vb, df, vs, lf, sf, se, ne) ==
    [dataset |-> ds, mgpu |-> mg, resume |-> rs, batches |-> nb,
     val_batches |-> vb, display_freq |-> df, viz_save_iter |-> vs,
     log_freq |-> lf, save_freq |-> sf, start_epoch |-> se,
     max_epoch |-> se + ne]

\* short runs over the combinations of the settings
ShortConfigs ==
    {Config(ds, mg, rs, nb, vb, df, vs, lf, sf, se, ne) :
        ds \in {"total-text", "synth-text"}, mg \in BOOLEAN,
        rs \in {"", "file"}, nb \in 0..MaxBatches,
        vb \in 0..MaxValBatches, df \in 1..MaxFreq, vs \in {1, MaxFreq},
        lf \in {1, MaxFreq}, sf \in 1..MaxFreq, se \in {0, step_size},
        ne \in 0..MaxEpochs}

\* runs long enough to cross the first decay of the step policy
LongConfigs ==
    {Config(ds, FALSE, "", 1, vb, 1, 1, 1, 1, 0, step_size + 1) :
        ds \in {"total-text", "synth-text"}, vb \in 0..1}

\* a dataset name main has no branch for, a resume path that does not exist
OtherConfigs ==
    {Config(ds, mg, rs, 1, 0, 1, 1, 1, 1, 0, 1) :
        ds \in {"total-text", "synth-text", "other"}, mg \in BOOLEAN,
        rs \in {"", "file", "missing"}}

Configs ==
    {c \in ShortConfigs \cup LongConfigs \cup OtherConfigs :
        c.dataset # "total-text" => c.val_batches = 0}

Init ==
    /\ cfg \in Configs
    /\ pc = "main"
    /\ epoch = 0
    /\ i = 0
    /\ train_step = 0
    /\ model = [wrapped |-> FALSE, params |-> 0, training |-> TRUE]
    /\ optimizer = 0
    /\ scheduler = [kind |-> "none", last_epoch |-> 0]
    /\ dirExists \in BOOLEAN
    /\ ckpts = {}
    /\ logFiles = [f \in LogNames |-> <<>>]
    /\ console = <<>>
    /\ logger = <<>>
    /\ calls = <<>>
    /\ saved = <<>>

----------------------------------------------------------------------------
(* main, up to the epoch loop *)

\* nn.DataParallel(model) when cfg.mgpu
built_model == [wrapped |-> cfg.mgpu, params |-> 0, training |-> TRUE]

\* FixLR for synth-text, StepLR for every other dataset
new_scheduler ==
    [kind |-> IF cfg.dataset = "synth-text" THEN "FixLR" ELSE "StepLR",
     last_epoch |-> 0]

Main ==
    /\ pc = "main"
    /\ IF cfg.dataset \notin {"total-text", "synth-text"}
       THEN \* trainset is unbound at the DataLoader call
            /\ pc' = "crashed"
            /\ UNCHANGED <<model, optimizer, scheduler, epoch>>
       ELSE IF cfg.resume = "missing"
       THEN \* torch.load finds no file
            /\ pc' = "crashed"
            /\ model' = built_model
            /\ UNCHANGED <<optimizer, scheduler, epoch>>
       ELSE IF cfg.resume = "file" /\ ~load_ok(built_model, ResumeFile.model)
       THEN \* load_state_dict rejects the keys
            /\ pc' = "crashed"
            /\ model' = built_model
            /\ UNCHANGED <<optimizer, scheduler, epoch>>
       ELSE /\ model' = IF cfg.resume = "file"
                        THEN load_model(built_model, ResumeFile)
                        ELSE built_model
            /\ optimizer' = new_optimizer(ResumeFile)
            /\ scheduler' = new_scheduler
            /\ epoch' = cfg.start_epoch
            /\ pc' = "epoch_loop"
    /\ UNCHANGED <<cfg, i, train_step, dirExists, ckpts, logFiles, console,
                   logger, calls, saved>>

\* for epoch in range(cfg.start_epoch, cfg.max_epoch): train(...)
EpochLoop ==
    /\ pc = "epoch_loop"
    /\ IF epoch < cfg.max_epoch
       THEN /\ pc' = "train"
            /\ calls' = Append(calls, <<"train", epoch>>)
       ELSE /\ pc' = "done"
            /\ UNCHANGED calls
    /\ UNCHANGED <<cfg, epoch, i, train_step, model, optimizer, scheduler,
                   dirExists, ckpts, logFiles, console, logger, saved>>

----------------------------------------------------------------------------
(* train() *)

\* model.train(), the commented-out scheduler.step(), the first enumerate
TrainEnter ==
    /\ pc = "train"
    /\ model' = [model EXCEPT !.training = TRUE]
    /\ scheduler' = train_head_scheduler(scheduler)
    /\ i' = 0
    /\ pc' = "train_loop"
    /\ UNCHANGED <<cfg, epoch, train_step, optimizer, dirExists, ckpts,
                   logFiles, console, logger, calls, saved>>

\* one batch: train_step += 1, forward, loss, backward, optimizer.step()
TrainBatch ==
    /\ pc = "train_loop"
    /\ IF i < cfg.batches
       THEN /\ train_step' = next_train_step(train_step, i)
            /\ model' = [model EXCEPT !.params = @ + 1]
            /\ optimizer' = optimizer + 1
            /\ pc' = "display"
       ELSE /\ pc' = "end_save"
            /\ UNCHANGED <<train_step, model, optimizer>>
    /\ UNCHANGED <<cfg, epoch, i, scheduler, dirExists, ckpts, logFiles,
                   console, logger, calls, saved>>

\* if i % cfg.display_freq == 0: print, then append to the six files
TrainDisplay ==
    /\ pc = "display"
    /\ IF display_due(i)
       THEN /\ console' = Append(console, <<epoch, iter_label(i)>>)
            /\ IF dirExists
               THEN /\ logFiles' = AppendAll(logFiles, <<epoch, iter_label(i)>>)
                    /\ pc' = "iter_save"
               ELSE \* open(..., "a+") in a directory that does not exist
                    /\ pc' = "crashed"
                    /\ UNCHANGED logFiles
       ELSE /\ pc' = "iter_save"
            /\ UNCHANGED <<console, logFiles>>
    /\ UNCHANGED <<cfg, epoch, i, train_step, model, optimizer, scheduler,
                   dirExists, ckpts, logger, calls, saved>>

\* if i % cfg.viz_save_iter == 0: save_model(..., scheduler.get_lr(), ..., i)
TrainIterSave ==
    /\ pc = "iter_save"
    /\ IF iter_save_due(i)
       THEN /\ dirExists' = TRUE
            /\ ckpts' = torch_save(ckpts,
                   save_model(model, epoch, get_lr(scheduler), optimizer, iter_label(i)))
            /\ saved' = Append(saved, [epoch |-> epoch, iter |-> iter_label(i),
                   lr |-> get_lr(scheduler), steps |-> scheduler.last_epoch,
                   batches |-> i + 1])
       ELSE UNCHANGED <<dirExists, ckpts, saved>>
    /\ pc' = "log"
    /\ UNCHANGED <<cfg, epoch, i, train_step, model, optimizer, scheduler,
                   logFiles, console, logger, calls>>

\* if i % cfg.log_freq == 0: logger.write_scalars(..., tag='train', n_iter=train_step)
TrainLog ==
    /\ pc = "log"
    /\ logger' = IF log_due(i)
                 THEN Append(logger, [tag |-> "train", n_iter |-> train_step,
                                      epoch |-> epoch, batch |-> i])
                 ELSE logger
    /\ i' = i + 1
    /\ pc' = "train_loop"
    /\ UNCHANGED <<cfg, epoch, train_step, model, optimizer, scheduler,
                   dirExists, ckpts, logFiles, console, calls, saved>>

\* if epoch % cfg.save_freq == 0: save_model(..., "end")
TrainEndSave ==
    /\ pc = "end_save"
    /\ IF end_save_due(epoch)
       THEN /\ dirExists' = TRUE
            /\ ckpts' = torch_save(ckpts,
                   save_model(model, epoch, get_lr(scheduler), optimizer, end_label))
            /\ saved' = Append(saved, [epoch |-> epoch, iter |-> end_label,
                   lr |-> get_lr(scheduler), steps |-> scheduler.last_epoch,
                   batches |-> i])
       ELSE UNCHANGED <<dirExists, ckpts, saved>>
    /\ pc' = "sched"
    /\ UNCHANGED <<cfg, epoch, i, train_step, model, optimizer, scheduler,
                   logFiles, console, logger, calls>>

\* scheduler.step(); train() returns
TrainSchedulerStep ==
    /\ pc = "sched"
    /\ scheduler' = scheduler_step(scheduler)
    /\ pc' = "after_train"
    /\ UNCHANGED <<cfg, epoch, i, train_step, model, optimizer, dirExists,
                   ckpts, logFiles, console, logger, calls, saved>>

----------------------------------------------------------------------------
(* validation() *)

\* if valset: validation(...), else the next epoch
AfterTrain ==
    /\ pc = "after_train"
    /\ IF has_valset
       THEN /\ calls' = Append(calls, <<"validation", epoch>>)
            /\ model' = [model EXCEPT !.training = FALSE]
            /\ i' = 0
            /\ pc' = "val_loop"
            /\ UNCHANGED epoch
       ELSE /\ epoch' = epoch + 1
            /\ pc' = "epoch_loop"
            /\ UNCHANGED <<calls, model, i>>
    /\ UNCHANGED <<cfg, train_step, optimizer, scheduler, dirExists, ckpts,
                   logFiles, console, logger, saved>>

\* one validation batch: forward, loss, meters, the per-term lines
ValBatch ==
    /\ pc = "val_loop"
    /\ i < cfg.val_batches
    /\ model' = [model EXCEPT !.params = validation_params(@)]
    /\ IF display_due(i) /\ ~dirExists
       THEN /\ pc' = "crashed"
            /\ UNCHANGED <<logFiles, i>>
       ELSE /\ logFiles' = IF display_due(i)
                           THEN AppendAll(logFiles, <<epoch, validation_label>>)
                           ELSE logFiles
            /\ i' = i + 1
            /\ pc' = "val_loop"
    /\ UNCHANGED <<cfg, epoch, train_step, optimizer, scheduler, dirExists,
                   ckpts, console, logger, calls, saved>>

\* logger.write_scalars(..., tag='val', n_iter=epoch); validation() returns
ValEnd ==
    /\ pc = "val_loop"
    /\ i >= cfg.val_batches
    /\ logger' = Append(logger, [tag |-> "val", n_iter |-> epoch,
                                 epoch |-> epoch, batch |-> i])
    /\ epoch' = epoch + 1
    /\ pc' = "epoch_loop"
    /\ UNCHANGED <<cfg, i, train_step, model, optimizer, scheduler, dirExists,
                   ckpts, logFiles, console, calls, saved>>

Next ==
    \/ Main
    \/ EpochLoop
    \/ TrainEnter
    \/ TrainBatch
    \/ TrainDisplay
    \/ TrainIterSave
    \/ TrainLog
    \/ TrainEndSave
    \/ TrainSchedulerStep
    \/ AfterTrain
    \/ ValBatch
    \/ ValEnd

Spec == Init /\ [][Next]_vars

----------------------------------------------------------------------------
(* Properties *)

IndicesOf(seq, Test(_)) == {k \in 1..Len(seq) : Test(seq[k])}
CountOf(seq, Test(_)) == Cardinality(IndicesOf(seq, Test))
CeilDiv(n, d) == (n + d - 1) \div d

InTrain == pc \in {"train", "train_loop", "display", "iter_save", "log",
                   "end_save", "sched"}
StepDecay == cfg.dataset # "synth-text"

TypeOK ==
    /\ pc \in {"main", "epoch_loop", "train", "train_loop", "display",
               "iter_save", "log", "end_save", "sched", "after_train",
               "val_loop", "done", "crashed"}
    /\ train_step \in Nat
    /\ dirExists \in BOOLEAN

\* C1: the step of every 'train' logger write is the global batch count of
\* the run: batches of all earlier epochs + i + 1; it strictly increases from
\* one 'train' write to the next and is not reset at an epoch boundary.
IsTrainWrite(w) == w.tag = "train"
C1_GlobalTrainStep ==
    /\ \A k \in IndicesOf(logger, IsTrainWrite) :
          logger[k].n_iter =
              (logger[k].epoch - cfg.start_epoch) * cfg.batches + logger[k].batch + 1
    /\ LET writes == SelectSeq(logger, IsTrainWrite)
       IN  \A k \in 1..(Len(writes) - 1) : writes[k].n_iter < writes[k + 1].n_iter

C1_Witness ==
    \E k \in IndicesOf(logger, IsTrainWrite) :
        /\ logger[k].epoch > cfg.start_epoch
        /\ logger[k].batch > 0
        /\ logger[k].n_iter > cfg.batches + 1

\* C2: a call of train() that returns has advanced the scheduler exactly
\* once, after the batch loop, whatever the number of batches; the count is
\* untouched inside the batch loop and by validation().
C2_OneSchedulerStepPerEpoch ==
    /\ InTrain => scheduler.last_epoch = epoch - cfg.start_epoch
    /\ pc \in {"after_train", "val_loop"} =>
          scheduler.last_epoch = epoch - cfg.start_epoch + 1
    /\ pc \in {"epoch_loop", "done"} =>
          scheduler.last_epoch = epoch - cfg.start_epoch

C2_Witness ==
    /\ pc = "after_train"
    /\ cfg.batches = 0
    /\ epoch > cfg.start_epoch
    /\ scheduler.last_epoch = epoch - cfg.start_epoch + 1

\* C3 (as claimed): with the step-decay policy, when train() has returned
\* for epoch e the number of 0.1 factors applied is floor(e / 100).
C3_DecayFollowsEpochIndex ==
    (pc = "after_train" /\ StepDecay) => get_lr(scheduler) = epoch \div step_size

\* C4: with synth-text validation() is never invoked and train() is invoked
\* once per epoch of start_epoch .. max_epoch-1, in order; with total-text
\* and a non-empty validation set every epoch invokes train() and then
\* validation() with the same epoch index.
C4_CallOrder ==
    /\ cfg.dataset = "synth-text" =>
          /\ \A k \in 1..Len(calls) :
                calls[k] = <<"train", cfg.start_epoch + k - 1>>
          /\ pc = "done" => Len(calls) = cfg.max_epoch - cfg.start_epoch
    /\ (cfg.dataset = "total-text" /\ cfg.val_batches > 0) =>
          /\ \A k \in 1..Len(calls) :
                calls[k] = <<IF k % 2 = 1 THEN "train" ELSE "validation",
                             cfg.start_epoch + (k - 1) \div 2>>
          /\ pc = "done" => Len(calls) = 2 * (cfg.max_epoch - cfg.start_epoch)

C4_Witness ==
    /\ pc = "done"
    /\ cfg.dataset = "synth-text"
    /\ cfg.batches > 0
    /\ Len(calls) >= 2

\* C5: after n batches of a call of train() the progress lines of the epoch
\* are exactly those of the batch indices 0, d, 2d, ... below n, so
\* ceil(N/d) lines in the whole call, and each of the six per-term files
\* received exactly one line tagged (epoch, i) for each of them.
ExpectedLines(e, n) ==
    [j \in 1..CeilDiv(n, cfg.display_freq) |->
        <<e, iter_label((j - 1) * cfg.display_freq)>>]
TrainLinesOf(seq) ==
    SelectSeq(seq, LAMBDA l : l[1] = epoch /\ l[2][1] = "iter")
C5_ProgressLines ==
    /\ pc = "train_loop" =>
          /\ TrainLinesOf(console) = ExpectedLines(epoch, i)
          /\ \A f \in LogNames : TrainLinesOf(logFiles[f]) = ExpectedLines(epoch, i)
    /\ pc = "end_save" =>
          Len(TrainLinesOf(console)) = CeilDiv(cfg.batches, cfg.display_freq)

C5_Witness ==
    /\ pc = "end_save"
    /\ cfg.batches = 4
    /\ cfg.display_freq = 2
    /\ TrainLinesOf(console) = <<<<epoch, iter_label(0)>>, <<epoch, iter_label(2)>>>>

\* C6: the "end" checkpoint of epoch e is written iff e mod save_freq = 0, at
\* most once, and only when every batch of the epoch has been processed.
EndSaves(e) == CountOf(saved, LAMBDA ev : ev.epoch = e /\ ev.iter = end_label)
EndExpected(e) == IF e % cfg.save_freq = 0 THEN 1 ELSE 0
C6_EndCheckpoint ==
    /\ \A e \in cfg.start_epoch..(epoch - 1) : EndSaves(e) = EndExpected(e)
    /\ pc \in {"sched", "after_train", "val_loop"} =>
          /\ EndSaves(epoch) = EndExpected(epoch)
          /\ (\E f \in ckpts : f.name = <<epoch, end_label>>)
                <=> epoch % cfg.save_freq = 0
    /\ pc \in {"train", "train_loop", "display", "iter_save", "log", "end_save"} =>
          EndSaves(epoch) = 0
    /\ \A k \in 1..Len(saved) :
          saved[k].iter = end_label => saved[k].batches = cfg.batches

C6_Witness ==
    /\ pc = "after_train"
    /\ epoch > cfg.start_epoch
    /\ cfg.batches >= 2
    /\ epoch % cfg.save_freq # 0
    /\ EndSaves(epoch) = 0
    /\ EndSaves(epoch - 1) = 1

\* C7: validation() leaves the model parameters, the optimizer state, the
\* scheduler, train_step and the checkpoint files alone and calls no
\* save_model; each call that returns made exactly one logger write tagged
\* 'val', with step = epoch.
InValidation == pc = "val_loop" \/ (pc = "after_train" /\ has_valset)
ValWrites(e) == CountOf(logger, LAMBDA w : w.tag = "val" /\ w.n_iter = e)
ValCalls(e) == CountOf(calls, LAMBDA c : c = <<"validation", e>>)
C7_ValidationFrame ==
    /\ [][InValidation =>
            /\ model'.params = model.params
            /\ UNCHANGED <<optimizer, scheduler, train_step, ckpts, saved>>]_vars
    /\ [](/\ \A e \in cfg.start_epoch..(epoch - 1) : ValWrites(e) = ValCalls(e)
          /\ pc \in {"val_loop", "after_train"} => ValWrites(epoch) = 0
          /\ \A k \in 1..Len(logger) :
                logger[k].tag = "val" =>
                    logger[k].n_iter \in cfg.start_epoch..(epoch - 1))

C7_Witness ==
    /\ pc = "epoch_loop"
    /\ epoch > cfg.start_epoch
    /\ cfg.val_batches >= 2
    /\ ValWrites(epoch - 1) = 1
    /\ model.params > 0
    /\ ckpts # {}

\* C8 (as claimed): once main has resumed from the checkpoint, the live
\* model parameters and the live optimizer state equal the saved ones.
C8_RoundTrip ==
    (cfg.resume = "file" /\ pc = "epoch_loop" /\ calls = <<>>) =>
        /\ model.params = SavedParams
        /\ optimizer = SavedOptimizer

\* C9: every checkpoint written while epoch e is trained was written before
\* that epoch's scheduler.step() and records the learning rate in effect for
\* the optimizer steps of epoch e.
LrInEffect(e) ==
    IF StepDecay THEN (e - cfg.start_epoch) \div step_size ELSE 0
C9_CheckpointLr ==
    /\ \A k \in 1..Len(saved) :
          /\ saved[k].steps = saved[k].epoch - cfg.start_epoch
          /\ saved[k].lr = LrInEffect(saved[k].epoch)
    /\ \A f \in ckpts : f.lr = LrInEffect(f.epoch)

C9_Witness ==
    /\ pc = "after_train"
    /\ epoch = step_size - 1
    /\ get_lr(scheduler) = 1
    /\ \E f \in ckpts : f.name = <<epoch, end_label>> /\ f.lr = 0

\* C10 (as claimed): whenever train() or validation() is about to append a
\* line to a per-term log file, the experiment directory exists.
C10_DirectoryBeforeAppend ==
    (\/ pc = "display" /\ i % cfg.display_freq = 0
     \/ pc = "val_loop" /\ i < cfg.val_batches /\ i % cfg.display_freq = 0)
        => dirExists
====
